---- MODULE Spec2Model ----
(***************************************************************************)
(* rustybug: the process controller (src/src/process.rs), its launcher     *)
(* (src/src/linux.rs) and the breakpoint records it owns, together with    *)
(* the part of the Linux kernel they talk to: one inferior, its memory,    *)
(* its program counter, its ptrace/wait state.                             *)
(*                                                                         *)
(* A call of the controller's API is one action; it leaves its result in   *)
(* `ret` and the caller takes the result with Ack before the next call.    *)
(* The inferior and the outside world move only between calls (ret empty)  *)
(* or while a call is blocked polling (launch, attach, wait_until, the     *)
(* first reap of teardown): a step of the inferior between a return and    *)
(* the next call is the same as that step after Ack.                       *)
(***************************************************************************)
EXTENDS Integers, Sequences, FiniteSets, TLC

VARIABLES
    ctl,              \* "none" | "live" | "dropped": does a Process value exist
    pid,              \* Process.pid (0 after an exit was reaped)
    state,            \* Process.state
    terminate_on_end, \* Process.terminate_on_end
    addr_offset,      \* Process.addr_offset
    breakpoints,      \* Process.breakpoints: Seq of [id, addr, saved, armed, enabled]
    nextId,           \* the breakpoint identifier counter
    op,               \* the call that is blocked polling (its name, what it has done so far), or Idle
    ret,              \* the result of the call that has just returned, or NoRet
    inf,              \* the inferior: "none" "forked" "returned" "running" "stepping" "tstop" "zombie" "reaped" "dead"
    traced,           \* the inferior is a tracee of the debugger
    child,            \* the inferior is a child of the debugger (launch), so it can be reaped after detach
    wstatus,          \* the wait status the kernel holds for the debugger, or NoStatus
    pendStop,         \* a SIGSTOP is queued for the inferior
    mem,              \* the inferior's text, one byte per address
    pc,               \* the inferior's program counter
    prog,             \* "exit": the program ends with exit(0); "loop": it never exits
    traceopts,        \* the tracee's ptrace options: "off", "on" (exit is reported as an event), "exiting" (it has been)
    closedSeen,       \* history: a wait has reported Exited or Terminated to the caller
    LOADED_FILES,     \* the file cache of elf.rs: per path the bytes inserted (a version), or 0
    disk,             \* the file system: per path the file's bytes (a version), or 0 if unreadable
    loader,           \* per thread: where it is in ExecutableFile::load, on which path, with what bytes
    wlock,            \* the thread that holds the cache's lock for writing, or 0
    rlock,            \* the threads that hold the cache's lock for reading
    nread,            \* history: per path, how often its file was read and inserted
    line,             \* the line handed to Command::from_str
    parsed            \* what Command::from_str returned for it, or NoParse

elfVars == << LOADED_FILES, disk, loader, wlock, rlock, nread >>
cmdVars == << line, parsed >>

vars == << ctl, pid, state, terminate_on_end, addr_offset, breakpoints, nextId,
           op, ret, inf, traced, child, wstatus, pendStop, mem, pc, traceopts, prog, closedSeen,
           elfVars, cmdVars >>

ctlVars == << ctl, pid, state, terminate_on_end, addr_offset, breakpoints, nextId >>
kernVars == << inf, traced, child, wstatus, pendStop, mem, pc, traceopts >>

----------------------------------------------------------------------------
(* Bounds *)

\* the inferior's text is the addresses 0 .. MaxAddr
MaxAddr == 3
\* at most MaxBps breakpoints are held at a time
MaxBps == 2
\* at most MaxId breakpoints are ever created
MaxId == 2
\* the load bias is one of 0 .. MaxBias
MaxBias == 1
\* addr_offset is an unsigned word of WordBits bits (64 in the program)
WordBits == 3
\* the text after "break " is at most MaxTail characters long
MaxTail == 5
\* the text after "load ", "attach " or a repeated "break " at most MaxShortTail
MaxShortTail == 3
\* MaxThreads threads call ExecutableFile::load
MaxThreads == 2
\* on MaxPaths paths
MaxPaths == 2
\* a file's bytes are one of MaxVersion versions
MaxVersion == 2

----------------------------------------------------------------------------
(* The inferior's program *)

\* the INT3 opcode a software breakpoint patches in
INT3 == 204
\* the pid of the one inferior
InfPid == 7

Addr == 0 .. MaxAddr

\* the values of an unsigned word are 0 .. Word - 1
Word == 2 ^ WordBits

\* the program's own byte at address a (never INT3)
OrigByte(a) == 16 + a

\* the instruction at 1 is two bytes long (1 and 2), every other one is one byte
InstrLen(a) == IF a = 1 THEN 2 ELSE 1

NoStatus == [k |-> "StillAlive", sig |-> "None", si |-> "None", code |-> 0]
Stopped(sig, si) == [k |-> "Stopped", sig |-> sig, si |-> si, code |-> 0]
Exited(code) == [k |-> "Exited", sig |-> "None", si |-> "None", code |-> code]
Signaled(sig) == [k |-> "Signaled", sig |-> sig, si |-> "None", code |-> 0]
\* WaitStatus::PtraceEvent: a stop with SIGTRAP that carries a ptrace event
PtraceEvent(sig, evt) == [k |-> "PtraceEvent", sig |-> sig, si |-> evt, code |-> 0]

\* The kernel's state as one value, so that a call's requests can be chained.
K == [inf |-> inf, traced |-> traced, child |-> child, wstatus |-> wstatus,
      pendStop |-> pendStop, mem |-> mem, pc |-> pc, opts |-> traceopts]

SetK(k) ==
    /\ inf' = k.inf
    /\ traced' = k.traced
    /\ child' = k.child
    /\ wstatus' = k.wstatus
    /\ pendStop' = k.pendStop
    /\ mem' = k.mem
    /\ pc' = k.pc
    /\ traceopts' = k.opts

Alive(k) == k.inf \in {"forked", "returned", "running", "stepping", "tstop"}

\* One instruction of the inferior at k.pc: an INT3 traps with the pc past it,
\* the last instruction exits (or jumps back to 0), a pc outside the text faults.
ExecOne(k) ==
    IF k.pc \notin Addr THEN [kind |-> "fault", pc |-> k.pc]
    ELSE IF k.mem[k.pc] = INT3 THEN [kind |-> "trap", pc |-> k.pc + 1]
    ELSE IF k.pc = MaxAddr
         THEN IF prog = "exit" THEN [kind |-> "exit", pc |-> k.pc]
                               ELSE [kind |-> "ok", pc |-> 0]
    ELSE [kind |-> "ok", pc |-> k.pc + InstrLen(k.pc)]

\* the si_code a SIGSEGV can carry for a fetch outside the text: the address
\* is not mapped, or it is mapped without the right to execute
SegvCodes == {"SEGV_MAPERR", "SEGV_ACCERR"}

\* The inferior after running one instruction; `single` when it runs under
\* PTRACE_SINGLESTEP, `segv` the si_code of the fault if it faults. A signal
\* stops a tracee and kills a process nobody traces.
RunOne(k, single, segv) ==
    LET e == IF k.opts = "exiting" THEN [kind |-> "exit", pc |-> k.pc] ELSE ExecOne(k) IN
    CASE e.kind = "exit" /\ k.traced /\ k.opts = "on" ->
           [k EXCEPT !.inf = "tstop", !.opts = "exiting",
                     !.wstatus = PtraceEvent("SIGTRAP", "PTRACE_EVENT_EXIT")]
      [] e.kind = "exit" /\ ~(k.traced /\ k.opts = "on") ->
           [k EXCEPT !.inf = IF k.traced \/ k.child THEN "zombie" ELSE "dead",
                     !.wstatus = IF k.traced \/ k.child THEN Exited(0) ELSE NoStatus,
                     !.pendStop = FALSE]
      [] e.kind \in {"trap", "fault"} ->
           IF k.traced
           THEN [k EXCEPT !.inf = "tstop", !.pc = e.pc,
                          !.wstatus = IF e.kind = "trap" THEN Stopped("SIGTRAP", "SI_KERNEL")
                                                         ELSE Stopped("SIGSEGV", segv)]
           ELSE [k EXCEPT !.inf = IF k.child THEN "zombie" ELSE "dead", !.pc = e.pc,
                          !.wstatus = IF k.child
                                      THEN Signaled(IF e.kind = "trap" THEN "SIGTRAP" ELSE "SIGSEGV")
                                      ELSE NoStatus,
                          !.pendStop = FALSE]
      [] OTHER ->
           IF single /\ k.traced
           THEN [k EXCEPT !.inf = "tstop", !.pc = e.pc,
                          !.wstatus = Stopped("SIGTRAP", "TRAP_TRACE")]
           ELSE [k EXCEPT !.inf = "running", !.pc = e.pc]

----------------------------------------------------------------------------
(* The kernel requests the controller makes. Each gives [ok, k]. *)

\* ptrace requests need the tracee in tracing-stop
Ptraceable(k, p) == p = InfPid /\ k.traced /\ k.inf = "tstop"

\* waitpid(p, WNOHANG): ECHILD for a pid that is no child or tracee (pid 0 names
\* the caller's process group, which holds no child: a launched child has its
\* own group); else the status the kernel holds, which is consumed, and an exit
\* or a death is reaped.
Waitable(k, p) ==
    /\ p = InfPid
    /\ k.traced \/ k.child
    /\ k.inf \in {"forked", "returned", "running", "stepping", "tstop", "zombie"}

KWaitPid(k, p) ==
    IF ~Waitable(k, p) THEN [ok |-> FALSE, ws |-> NoStatus, k |-> k]
    ELSE [ok |-> TRUE, ws |-> k.wstatus,
          k |-> [k EXCEPT !.wstatus = NoStatus,
                          !.inf = IF k.wstatus.k \in {"Exited", "Signaled"} THEN "reaped" ELSE k.inf,
                          !.traced = IF k.wstatus.k \in {"Exited", "Signaled"} THEN FALSE ELSE k.traced]]

\* kill(p, sig). SIGKILL takes effect at once; SIGSTOP is queued; SIGCONT
\* discards a queued SIGSTOP. kill(0, sig) signals the caller's own group.
KKill(k, p, sig) ==
    IF p = 0 THEN [ok |-> TRUE, k |-> k]
    ELSE IF ~(p = InfPid /\ k.inf \in {"forked", "returned", "running", "stepping", "tstop", "zombie"})
    THEN [ok |-> FALSE, k |-> k]
    ELSE IF k.inf = "zombie" THEN [ok |-> TRUE, k |-> k]
    ELSE CASE sig = "SIGKILL" ->
                [ok |-> TRUE,
                 k |-> [k EXCEPT !.inf = IF k.traced \/ k.child THEN "zombie" ELSE "dead",
                                 !.wstatus = IF k.traced \/ k.child THEN Signaled("SIGKILL") ELSE NoStatus,
                                 !.pendStop = FALSE]]
           [] sig = "SIGSTOP" -> [ok |-> TRUE, k |-> [k EXCEPT !.pendStop = TRUE]]
           [] OTHER -> [ok |-> TRUE, k |-> [k EXCEPT !.pendStop = FALSE]]

\* a continue that reports success and leaves the tracee in its stop
KCont_noop(k, p) == [ok |-> Ptraceable(k, p), k |-> k]

\* PTRACE_CONT / PTRACE_SINGLESTEP: the tracee leaves its stop, and the stop's
\* status, if nobody waited for it, is gone
KCont(k, p) ==
    IF ~Ptraceable(k, p) THEN [ok |-> FALSE, k |-> k]
    ELSE [ok |-> TRUE, k |-> [k EXCEPT !.inf = "running", !.wstatus = NoStatus]]

KSingleStep(k, p) ==
    IF ~Ptraceable(k, p) THEN [ok |-> FALSE, k |-> k]
    ELSE [ok |-> TRUE, k |-> [k EXCEPT !.inf = "stepping", !.wstatus = NoStatus]]

KDetach(k, p) ==
    IF ~Ptraceable(k, p) THEN [ok |-> FALSE, k |-> k]
    ELSE [ok |-> TRUE, k |-> [k EXCEPT !.inf = "running", !.traced = FALSE, !.wstatus = NoStatus]]

\* PTRACE_SETOPTIONS with the event options: from now on the tracee stops
\* with an event before it exits
KSetOptions(k, p) ==
    IF ~Ptraceable(k, p) THEN [ok |-> FALSE, k |-> k]
    ELSE [ok |-> TRUE, k |-> [k EXCEPT !.opts = IF @ = "off" THEN "on" ELSE @]]

KPoke(k, p, a, b) ==
    IF ~(Ptraceable(k, p) /\ a \in Addr) THEN [ok |-> FALSE, k |-> k]
    ELSE [ok |-> TRUE, k |-> [k EXCEPT !.mem[a] = b]]

KSetPc(k, p, a) ==
    IF ~Ptraceable(k, p) THEN [ok |-> FALSE, k |-> k]
    ELSE [ok |-> TRUE, k |-> [k EXCEPT !.pc = a]]

----------------------------------------------------------------------------
(* Breakpoint: one software breakpoint. *)

NewBreakpoint(id, a, saved) ==
    [id |-> id, addr |-> a, saved |-> saved, armed |-> TRUE, enabled |-> TRUE]

\* Breakpoint::new: read the byte at the address, keep it, write INT3 over it.
\* Gives [ok, k, saved, reqs].
Breakpoint_new(k, p, a) ==
    IF ~(Ptraceable(k, p) /\ a \in Addr)
    THEN [ok |-> FALSE, k |-> k, saved |-> 0, reqs |-> <<>>]
    ELSE [ok |-> TRUE, k |-> KPoke(k, p, a, INT3).k, saved |-> k.mem[a],
          reqs |-> << "POKE" >>]

\* Breakpoint::has_hit, with the caller's unwrap_or_default(): an error counts
\* as not hit. The pc is one past the trap byte after an INT3.
has_hit(k, p, bp) == Ptraceable(k, p) /\ k.pc = bp.addr + 1

\* Breakpoint::jump_to: the pc goes back to the breakpoint's address.
jump_to(k, p, bp) == KSetPc(k, p, bp.addr)

\* a step over that does nothing: the trap byte stays and nothing is stepped
step_over_skip(k, p, bp) == [ok |-> TRUE, k |-> k, bp |-> bp, reqs |-> <<>>]

\* The step over a hit breakpoint that Process::resume asks for: disarm,
\* rewind, single-step and wait for its stop, re-arm. Gives [ok, k, bp, reqs];
\* a request that fails ends it there.
step_over(k, p, bp) ==
    LET d == KPoke(k, p, bp.addr, bp.saved)
        b1 == [bp EXCEPT !.armed = FALSE]
        r == KSetPc(d.k, p, bp.addr)
        s == KSingleStep(r.k, p)
        ran == RunOne(s.k, TRUE, "SEGV_MAPERR")
        w == KWaitPid(ran, p)
        a == KPoke(w.k, p, bp.addr, INT3)
    IN  IF ~d.ok THEN [ok |-> FALSE, k |-> k, bp |-> bp, reqs |-> <<>>]
        ELSE IF ~r.ok THEN [ok |-> FALSE, k |-> d.k, bp |-> b1, reqs |-> << "POKE" >>]
        ELSE IF ~s.ok THEN [ok |-> FALSE, k |-> r.k, bp |-> b1, reqs |-> << "POKE", "SETPC" >>]
        ELSE IF ~a.ok THEN [ok |-> FALSE, k |-> w.k, bp |-> b1,
                            reqs |-> << "POKE", "SETPC", "SINGLESTEP" >>]
        ELSE [ok |-> TRUE, k |-> a.k, bp |-> [bp EXCEPT !.armed = TRUE],
              reqs |-> << "POKE", "SETPC", "SINGLESTEP", "POKE" >>]

\* What Process::step asks of a hit breakpoint: disarm and rewind; it is not
\* re-armed.
disarm_rewind(k, p, bp) ==
    LET d == KPoke(k, p, bp.addr, bp.saved)
        r == KSetPc(d.k, p, bp.addr)
    IN  IF ~d.ok THEN [ok |-> FALSE, k |-> k, bp |-> bp, reqs |-> <<>>]
        ELSE IF ~r.ok THEN [ok |-> FALSE, k |-> d.k, bp |-> [bp EXCEPT !.armed = FALSE],
                            reqs |-> << "POKE" >>]
        ELSE [ok |-> TRUE, k |-> r.k, bp |-> [bp EXCEPT !.armed = FALSE],
              reqs |-> << "POKE", "SETPC" >>]

\* A breakpoint's end of life: disarm if armed (the write fails unless the
\* inferior is a tracee in tracing-stop).
disarm(k, p, bp) ==
    IF bp.armed THEN KPoke(k, p, bp.addr, bp.saved) ELSE [ok |-> TRUE, k |-> k]

RECURSIVE drop_breakpoints(_, _, _)
drop_breakpoints(k, p, bps) ==
    IF bps = <<>> THEN k
    ELSE drop_breakpoints(disarm(k, p, Head(bps)).k, p, Tail(bps))

\* the indices of the breakpoints that report a hit, in order
HitIdx(k, p, bps) == { i \in 1 .. Len(bps) : has_hit(k, p, bps[i]) }
Min(S) == CHOOSE x \in S : \A y \in S : x <= y

----------------------------------------------------------------------------
(* Results *)

NoSR == [reason |-> "None", info |-> "None", sig |-> "None", code |-> 0,
         event |-> "None", trap_reason |-> "None"]

\* StopReason::new
StopReason_new(reason, info, sig, code) ==
    [reason |-> reason, info |-> info, sig |-> sig, code |-> code,
     event |-> "None", trap_reason |-> "None"]

Idle == [name |-> "idle", reqs |-> <<>>, pre |-> "none", prestate |-> "None"]

NoRet == [op |-> "none", ok |-> TRUE, err |-> "None", sr |-> NoSR, reqs |-> <<>>,
          hit |-> FALSE, pre |-> "none", prestate |-> "None"]

Ret(o, ok, err, sr, reqs, hit, pre, prestate) ==
    [op |-> o, ok |-> ok, err |-> err, sr |-> sr, reqs |-> reqs, hit |-> hit,
     pre |-> pre, prestate |-> prestate]

Closed == {"Exited", "Terminated"}

----------------------------------------------------------------------------
(* Process::wait_on_signal *)

\* a match on si_code that takes the kernel's INT3 code for a hardware breakpoint
TrapReason_hw(si) ==
    CASE si = "TRAP_TRACE" -> "SingleStep"
      [] si = "SI_KERNEL" -> "HardwareBreak"
      [] OTHER -> "None"

\* the number siginfo.si_code holds for a code of signal.h; codes of
\* different signals share numbers
si_code(si) ==
    CASE si = "SI_USER" -> 0
      [] si = "SEGV_MAPERR" -> 1
      [] si = "SEGV_ACCERR" -> 2
      [] si = "TRAP_TRACE" -> 2
      [] si = "TRAP_HWBKPT" -> 4
      [] si = "SI_KERNEL" -> 128
      [] OTHER -> 0 - 1

\* the trap_reason wait_on_signal reads from getsiginfo's si_code: the match
\* is on the number alone (TRAP_TRACE = 2, SI_KERNEL = 0x80, TRAP_HWBKPT = 4)
TrapReason(si) ==
    CASE si_code(si) = 2 -> "SingleStep"
      [] si_code(si) = 128 -> "SoftwareBreak"
      [] si_code(si) = 4 -> "HardwareBreak"
      [] OTHER -> "None"

\* an Event::try_from that knows no event
Event_try_from_unknown(event) == "None"

\* impl TryFrom<i32> for Event, with the caller's match: an unknown event
\* number is logged and gives None
Event_try_from(event) ==
    CASE event = "PTRACE_EVENT_FORK" -> "Fork"
      [] event = "PTRACE_EVENT_VFORK" -> "Vfork"
      [] event = "PTRACE_EVENT_CLONE" -> "Spawn"
      [] event = "PTRACE_EVENT_EXEC" -> "Exec"
      [] event = "PTRACE_EVENT_EXIT" -> "Exit"
      [] OTHER -> "None"

\* a wait_on_signal that swallows waitpid's error and reports "nothing yet"
wait_failed_swallowed(p, st) ==
    [ok |-> TRUE, err |-> "None", sr |-> NoSR, pid |-> p, state |-> st]

\* a wait_on_signal that reports a failed waitpid as one more stop
wait_failed_as_stop(p, st) ==
    [ok |-> TRUE, err |-> "None", sr |-> StopReason_new("Stopped", "Signalled", "SIGSTOP", 0),
     pid |-> p, state |-> "Stopped"]

\* waitpid failed: the error is passed on as WaitFailed, the controller untouched
wait_failed(p, st) ==
    [ok |-> FALSE, err |-> "WaitFailed", sr |-> NoSR, pid |-> p, state |-> st]

\* a StillAlive arm that takes the inferior to be running
still_alive_running(p, st) ==
    [ok |-> TRUE, err |-> "None", sr |-> NoSR, pid |-> p, state |-> "Running"]

\* WaitStatus::StillAlive: nothing to report, the state as it was
still_alive(p, st) ==
    [ok |-> TRUE, err |-> "None", sr |-> NoSR, pid |-> p, state |-> st]

\* an Exited arm that keeps the stored pid
exited_pid_kept(p) == p

\* WaitStatus::Exited: the stored pid becomes zero
exited_pid(p) == 0

\* WaitStatus::Exited, an exit status of some other child: the state it leaves
exited_state_other(reported, p) == "Running"

\* WaitStatus::Exited: Exited for the stored pid's own exit status, Running for
\* another child's. waitpid(p, ..) with p > 0 reports p alone, and a waitpid
\* that reports anything at all reports the inferior.
exited_state(reported, p) == IF reported = p THEN "Exited" ELSE "Running"

\* What wait_on_signal makes of waitpid's answer w for the controller (p, st):
\* [ok, err, sr, pid, state]. getsiginfo is asked with the pid as it is after
\* the match, so it fails once the pid is zeroed or the inferior is gone.
WaitOutcome(w, p, st) ==
    LET wk == w.ws.k
        np == IF wk = "Exited" THEN exited_pid(p) ELSE p
        siginfo == IF Ptraceable(w.k, np) THEN TrapReason(w.ws.si) ELSE "None"
    IN  CASE ~w.ok -> wait_failed(p, st)
          [] wk = "StillAlive" -> still_alive(p, st)
          [] wk = "Exited" ->
               [ok |-> TRUE, err |-> "None",
                sr |-> StopReason_new("Exited", "Return", "None", w.ws.code),
                pid |-> exited_pid(p), state |-> exited_state(InfPid, p)]
          [] wk = "Stopped" ->
               [ok |-> TRUE, err |-> "None",
                sr |-> [StopReason_new("Stopped", "Signalled", w.ws.sig, 0)
                          EXCEPT !.trap_reason = siginfo],
                pid |-> p, state |-> "Stopped"]
          [] wk = "Signaled" ->
               [ok |-> TRUE, err |-> "None",
                sr |-> StopReason_new("Terminated", "Signalled", w.ws.sig, 0),
                pid |-> p, state |-> "Terminated"]
          [] OTHER ->
               [ok |-> TRUE, err |-> "None",
                sr |-> [StopReason_new("Stopped", "Signalled", w.ws.sig, 0)
                          EXCEPT !.event = Event_try_from(w.ws.si), !.trap_reason = "None"],
                pid |-> p, state |-> "Stopped"]

\* One call of wait_on_signal in the current state: the outcome and the kernel after it.
wait_on_signal ==
    LET w == KWaitPid(K, pid) IN
    [out |-> WaitOutcome(w, pid, state), k |-> w.k]

----------------------------------------------------------------------------
(* impl Drop for Process, after the stop-and-reap of a Running inferior:    *)
(* detach, SIGCONT, and for a launched inferior SIGKILL and a reap; then    *)
(* the fields are dropped, the breakpoints among them. Gives [k, reqs].     *)

\* a teardown that gives up at a failed detach
teardown_until_error(k, p, toe, bps) ==
    IF p = 0 THEN [k |-> drop_breakpoints(k, p, bps), reqs |-> <<>>]
    ELSE
      LET d == KDetach(k, p)
          c == KKill(d.k, p, "SIGCONT")
          x == KKill(c.k, p, "SIGKILL")
          w == KWaitPid(x.k, p)
      IN  IF ~d.ok
          THEN [k |-> drop_breakpoints(k, p, bps), reqs |-> << "DETACH" >>]
          ELSE IF toe
          THEN [k |-> drop_breakpoints(w.k, p, bps),
                reqs |-> << "DETACH", "SIGCONT", "SIGKILL", "WAITPID" >>]
          ELSE [k |-> drop_breakpoints(c.k, p, bps),
                reqs |-> << "DETACH", "SIGCONT" >>]

teardown(k, p, toe, bps) ==
    IF p = 0 THEN [k |-> drop_breakpoints(k, p, bps), reqs |-> <<>>]
    ELSE
      LET d == KDetach(k, p)
          c == KKill(d.k, p, "SIGCONT")
          x == KKill(c.k, p, "SIGKILL")
          w == KWaitPid(x.k, p)
      IN  IF toe
          THEN [k |-> drop_breakpoints(w.k, p, bps),
                reqs |-> << "DETACH", "SIGCONT", "SIGKILL", "WAITPID" >>]
          ELSE [k |-> drop_breakpoints(c.k, p, bps),
                reqs |-> << "DETACH", "SIGCONT" >>]

----------------------------------------------------------------------------
(* Init: no controller yet; either no process (a program will be launched)  *)
(* or a running process of somebody else's (it will be attached to).        *)

Threads == 1 .. MaxThreads
Paths == 1 .. MaxPaths
Versions == 1 .. MaxVersion

\* a thread that is not inside ExecutableFile::load
NotLoading == [pc |-> "idle", path |-> 0, data |-> 0]

\* the cache is empty (LazyLock::new(|| Default::default())), nobody loads
ElfInit ==
    /\ LOADED_FILES = [p \in Paths |-> 0]
    /\ disk = [p \in Paths |-> 1]
    /\ loader = [t \in Threads |-> NotLoading]
    /\ wlock = 0
    /\ rlock = {}
    /\ nread = [p \in Paths |-> 0]

NoParse == [ok |-> TRUE, kind |-> "NoParse"]

\* no line has been entered
CmdInit ==
    /\ line = <<>>
    /\ parsed = NoParse

\* no controller yet, no result waiting
ProcInit ==
    /\ ctl = "none"
    /\ pid = 0
    /\ state = "Stopped"
    /\ terminate_on_end = FALSE
    /\ addr_offset = 0
    /\ breakpoints = <<>>
    /\ nextId = 1
    /\ op = Idle
    /\ ret = NoRet
    /\ inf \in {"none", "running"}
    /\ traced = FALSE
    /\ child = FALSE
    /\ wstatus = NoStatus
    /\ pendStop = FALSE
    /\ mem = [a \in Addr |-> OrigByte(a)]
    /\ pc = 0
    /\ traceopts = "off"
    /\ prog \in {"exit", "loop"}
    /\ closedSeen = FALSE

Init ==
    /\ ProcInit
    /\ ElfInit
    /\ CmdInit

CanCall == ctl = "live" /\ op = Idle /\ ret = NoRet

----------------------------------------------------------------------------
(* Process::launch and Process::attach up to their blocking wait *)

\* a launch_program that forks without looking at the path
launch_forks_unchecked(exists, forkOk) == forkOk

\* launch_program forks only after exe.exists(), and the fork may fail
launch_forks(exists, forkOk) == exists /\ forkOk

launch(exists, forkOk, bias) ==
    /\ ctl = "none" /\ op = Idle /\ ret = NoRet
    /\ inf = "none"
    /\ IF ~launch_forks(exists, forkOk)
       THEN /\ ret' = Ret("launch", FALSE, IF exists THEN "LaunchFailed" ELSE "NoPid",
                          NoSR, <<>>, FALSE, inf, "None")
            /\ UNCHANGED << ctlVars, kernVars, op >>
       ELSE /\ ctl' = "live"
            /\ pid' = InfPid
            /\ addr_offset' = bias
            /\ terminate_on_end' = TRUE
            /\ state' = "Stopped"
            /\ breakpoints' = <<>>
            /\ inf' = "forked"
            /\ child' = TRUE
            /\ op' = [name |-> "launch", reqs |-> <<>>, pre |-> inf, prestate |-> "None"]
            /\ UNCHANGED << nextId, ret, traced, wstatus, pendStop, mem, pc, traceopts >>
    /\ UNCHANGED << prog, closedSeen >>
    /\ UNCHANGED << elfVars, cmdVars >>

attach(bias) ==
    /\ ctl = "none" /\ op = Idle /\ ret = NoRet
    /\ IF ~(inf = "running" /\ ~traced)
       THEN /\ ret' = Ret("attach", FALSE, "AttachFailed", NoSR, <<>>, FALSE, inf, "None")
            /\ UNCHANGED << ctlVars, kernVars, op >>
       ELSE /\ ctl' = "live"
            /\ pid' = InfPid
            /\ addr_offset' = bias
            /\ terminate_on_end' = FALSE
            /\ state' = "Stopped"
            /\ breakpoints' = <<>>
            /\ traced' = TRUE
            /\ pendStop' = TRUE
            /\ op' = [name |-> "attach", reqs |-> <<>>, pre |-> inf, prestate |-> "None"]
            /\ UNCHANGED << nextId, ret, inf, child, wstatus, mem, pc, traceopts >>
    /\ UNCHANGED << prog, closedSeen >>
    /\ UNCHANGED << elfVars, cmdVars >>

----------------------------------------------------------------------------
(* Process::blocking_wait_on_signal: poll wait_on_signal until it gives a   *)
(* StopReason or fails, or until the time is up. In launch and attach an    *)
(* error return drops the Process that was being built.                     *)

Building == op.name \in {"launch", "attach"}

\* the blocked call returns an error
FailBlocked(err, k) ==
    IF Building
    THEN LET t == teardown(k, pid, terminate_on_end, breakpoints) IN
         /\ SetK(t.k)
         /\ ctl' = "dropped"
         /\ breakpoints' = <<>>
         /\ ret' = Ret(op.name, FALSE, err, NoSR, t.reqs, FALSE, op.pre, op.prestate)
         /\ UNCHANGED << pid, state, terminate_on_end, addr_offset, nextId >>
    ELSE /\ SetK(k)
         /\ ret' = Ret(op.name, FALSE, err, NoSR, <<>>, FALSE, op.pre, op.prestate)
         /\ UNCHANGED ctlVars

\* the caller's blocking_wait_on_signal starts polling
blocking_wait_on_signal ==
    /\ CanCall
    /\ op' = [name |-> "wait_until", reqs |-> <<>>, pre |-> inf, prestate |-> state]
    /\ UNCHANGED << ctlVars, kernVars, ret, prog, closedSeen >>
    /\ UNCHANGED << elfVars, cmdVars >>

\* the time is up (at any moment: the timeout may be short, down to none)
Timeout ==
    /\ ret = NoRet
    /\ op.name \in {"launch", "attach", "wait_until"}
    /\ op' = Idle
    /\ FailBlocked("Timeout", K)
    /\ UNCHANGED << prog, closedSeen >>
    /\ UNCHANGED << elfVars, cmdVars >>

Poll ==
    /\ ret = NoRet
    /\ op.name \in {"launch", "attach", "wait_until"}
    /\ LET r == wait_on_signal IN
       IF ~r.out.ok
       THEN /\ op' = Idle
            /\ FailBlocked(r.out.err, r.k)
       ELSE /\ SetK(r.k)
            /\ pid' = r.out.pid
            /\ state' = r.out.state
            /\ UNCHANGED << ctl, terminate_on_end, addr_offset, breakpoints, nextId >>
            /\ IF r.out.sr = NoSR
               THEN UNCHANGED << op, ret >>
               ELSE /\ op' = Idle
                    /\ ret' = Ret(op.name, TRUE, "None", r.out.sr, <<>>, FALSE,
                                  op.pre, op.prestate)
    /\ UNCHANGED << prog, closedSeen >>
    /\ UNCHANGED << elfVars, cmdVars >>

----------------------------------------------------------------------------
(* The controller's non-blocking calls *)

\* Process::wait_on_signal called by the owner
wait ==
    /\ CanCall
    /\ LET r == wait_on_signal IN
       /\ SetK(r.k)
       /\ pid' = r.out.pid
       /\ state' = r.out.state
       /\ ret' = Ret("wait", r.out.ok, r.out.err, r.out.sr, <<>>, FALSE, inf, state)
    /\ UNCHANGED << ctl, terminate_on_end, addr_offset, breakpoints, nextId, op,
                    prog, closedSeen >>
    /\ UNCHANGED << elfVars, cmdVars >>

\* a resume that sets Running before it knows the continue was issued
resume_state_always(ok, st) == "Running"

\* a resume that forgets to set Running
resume_state_keep(ok, st) == st

\* the state Process::resume leaves: Running once the continue was issued
resume_state(ok, st) == IF ok THEN "Running" ELSE st

\* Process::resume: [ok, k, bps, reqs, hit]
resume_run(k, p, bps) ==
    LET hits == HitIdx(k, p, bps) IN
    IF hits = {}
    THEN LET c == KCont(k, p) IN
         [ok |-> c.ok, k |-> c.k, bps |-> bps,
          reqs |-> IF c.ok THEN << "CONT" >> ELSE <<>>, hit |-> FALSE]
    ELSE LET i == Min(hits)
             j == jump_to(k, p, bps[i])
             so == step_over(j.k, p, bps[i])
             c == KCont(so.k, p)
         IN  IF ~j.ok THEN [ok |-> FALSE, k |-> k, bps |-> bps, reqs |-> <<>>, hit |-> TRUE]
             ELSE IF ~so.ok
                  THEN [ok |-> FALSE, k |-> so.k, bps |-> [bps EXCEPT ![i] = so.bp],
                        reqs |-> << "SETPC" >> \o so.reqs, hit |-> TRUE]
             ELSE [ok |-> c.ok, k |-> c.k, bps |-> [bps EXCEPT ![i] = so.bp],
                   reqs |-> << "SETPC" >> \o so.reqs \o (IF c.ok THEN << "CONT" >> ELSE <<>>),
                   hit |-> TRUE]

resume ==
    /\ CanCall
    /\ \E r \in { resume_run(K, pid, breakpoints) } :
       /\ SetK(r.k)
       /\ breakpoints' = r.bps
       /\ state' = resume_state(r.ok, state)
       /\ ret' = Ret("resume", r.ok, IF r.ok THEN "None" ELSE "ContinueFailed", NoSR,
                     r.reqs, r.hit, inf, state)
    /\ UNCHANGED << ctl, pid, terminate_on_end, addr_offset, nextId, op, prog, closedSeen >>
    /\ UNCHANGED << elfVars, cmdVars >>

\* a step that leaves the state as it found it
step_state_keep(ok, st) == st

\* the state Process::step leaves: Stopped once the single-step was issued
step_state(ok, st) == IF ok THEN "Stopped" ELSE st

\* Process::step: [ok, err, k, bps, reqs, hit]
step_run(k, p, bps) ==
    LET hits == HitIdx(k, p, bps) IN
    IF hits = {}
    THEN LET s == KSingleStep(k, p) IN
         [ok |-> s.ok, err |-> IF s.ok THEN "None" ELSE "SingleStepFailed", k |-> s.k,
          bps |-> bps, reqs |-> IF s.ok THEN << "SINGLESTEP" >> ELSE <<>>, hit |-> FALSE]
    ELSE LET i == Min(hits)
             d == disarm_rewind(k, p, bps[i])
             s == KSingleStep(d.k, p)
         IN  IF ~d.ok
             THEN [ok |-> FALSE, err |-> "ContinueFailed", k |-> d.k,
                   bps |-> [bps EXCEPT ![i] = d.bp], reqs |-> d.reqs, hit |-> TRUE]
             ELSE [ok |-> s.ok, err |-> IF s.ok THEN "None" ELSE "SingleStepFailed", k |-> s.k,
                   bps |-> [bps EXCEPT ![i] = d.bp],
                   reqs |-> d.reqs \o (IF s.ok THEN << "SINGLESTEP" >> ELSE <<>>), hit |-> TRUE]

step ==
    /\ CanCall
    /\ LET r == step_run(K, pid, breakpoints) IN
       /\ SetK(r.k)
       /\ breakpoints' = r.bps
       /\ state' = step_state(r.ok, state)
       /\ ret' = Ret("step", r.ok, r.err, NoSR, r.reqs, r.hit, inf, state)
    /\ UNCHANGED << ctl, pid, terminate_on_end, addr_offset, nextId, op, prog, closedSeen >>
    /\ UNCHANGED << elfVars, cmdVars >>

\* a stop that sends the wrong signal
stop_signal_cont == "SIGCONT"

\* the signal Process::stop sends
stop_signal == "SIGSTOP"

\* a stop that marks the controller Stopped as soon as the signal is sent
stop_state_stopped(ok, st) == IF ok THEN "Stopped" ELSE st

\* the state Process::stop leaves: it takes &self and assigns nothing
stop_state(ok, st) == st

\* Process::stop: SIGSTOP to the stored pid, nothing else
stop ==
    /\ CanCall
    /\ LET s == KKill(K, pid, stop_signal) IN
       /\ SetK(s.k)
       /\ state' = stop_state(s.ok, state)
       /\ ret' = Ret("stop", s.ok, IF s.ok THEN "None" ELSE "KillFailed", NoSR,
                     << stop_signal >>, FALSE, inf, state)
    /\ UNCHANGED << ctl, pid, terminate_on_end, addr_offset, breakpoints, nextId,
                    op, prog, closedSeen >>
    /\ UNCHANGED << elfVars, cmdVars >>

\* addr + self.addr_offset on unsigned words as a build without overflow
\* checks computes it
corrected(addr, offset) == (addr + offset) % Word

\* Process::set_breakpoint(addr): the breakpoint goes to addr + addr_offset.
\* The sum is a plain `+` on u64: when it leaves the range, a build with
\* overflow checks panics, which drops the Process, and a build without them
\* goes on with the wrapped sum.
set_breakpoint(addr) ==
    /\ CanCall
    /\ Len(breakpoints) < MaxBps
    /\ nextId <= MaxId
    /\ \E checked \in BOOLEAN :
         IF checked /\ addr + addr_offset >= Word
         THEN LET t == teardown(K, pid, terminate_on_end, breakpoints) IN
              /\ SetK(t.k)
              /\ ctl' = "dropped"
              /\ breakpoints' = <<>>
              /\ ret' = Ret("set_breakpoint", FALSE, "Panic", NoSR, t.reqs, FALSE, inf, state)
              /\ UNCHANGED nextId
         ELSE LET a == corrected(addr, addr_offset)
                  b == Breakpoint_new(K, pid, a) IN
              /\ SetK(b.k)
              /\ IF b.ok
                 THEN /\ breakpoints' = Append(breakpoints, NewBreakpoint(nextId, a, b.saved))
                      /\ nextId' = nextId + 1
                 ELSE UNCHANGED << breakpoints, nextId >>
              /\ ret' = Ret("set_breakpoint", b.ok,
                            IF b.ok THEN "None" ELSE "BreakpointSetFailed",
                            NoSR, b.reqs, FALSE, inf, state)
              /\ UNCHANGED ctl
    /\ UNCHANGED << pid, state, terminate_on_end, addr_offset, op, prog, closedSeen >>
    /\ UNCHANGED << elfVars, cmdVars >>

\* the sequence s without its i-th element
RemoveAt(s, i) == SubSeq(s, 1, i - 1) \o SubSeq(s, i + 1, Len(s))

\* BreakpointSet::remove of the i-th breakpoint: disarm if armed, then drop
remove(i) ==
    /\ CanCall
    /\ i \in 1 .. Len(breakpoints)
    /\ LET d == disarm(K, pid, breakpoints[i]) IN
       /\ SetK(d.k)
       /\ breakpoints' = IF d.ok THEN RemoveAt(breakpoints, i) ELSE breakpoints
       /\ ret' = Ret("remove", d.ok, IF d.ok THEN "None" ELSE "WriteFailed", NoSR,
                     <<>>, FALSE, inf, state)
    /\ UNCHANGED << ctl, pid, state, terminate_on_end, addr_offset, nextId, op,
                    prog, closedSeen >>
    /\ UNCHANGED << elfVars, cmdVars >>

----------------------------------------------------------------------------
(* impl Drop for Process *)

\* the teardown from the detach on, and the end of the Process; the result
\* records the inferior's state when the detach is asked for
FinishDrop(k, reqs, prestate) ==
    LET t == teardown(k, pid, terminate_on_end, breakpoints) IN
    /\ SetK(t.k)
    /\ ctl' = "dropped"
    /\ breakpoints' = <<>>
    /\ op' = Idle
    /\ ret' = Ret("drop", TRUE, "None", NoSR, reqs \o t.reqs, FALSE, k.inf, prestate)
    /\ UNCHANGED << pid, state, terminate_on_end, addr_offset, nextId, prog, closedSeen >>

\* stop_on_events: trace_children(pid); a failure is logged, nothing is returned
stop_on_events ==
    /\ CanCall
    /\ LET o == KSetOptions(K, pid) IN
       /\ SetK(o.k)
       /\ ret' = Ret("stop_on_events", TRUE, "None", NoSR,
                     IF o.ok THEN << "SETOPTIONS" >> ELSE <<>>, FALSE, inf, state)
    /\ UNCHANGED << ctlVars, op, prog, closedSeen >>
    /\ UNCHANGED << elfVars, cmdVars >>

\* drop: a Running inferior is sent SIGSTOP and the drop blocks in waitpid
drop ==
    /\ CanCall
    /\ IF pid # 0 /\ state = "Running"
       THEN /\ SetK(KKill(K, pid, "SIGSTOP").k)
            /\ op' = [name |-> "drop", reqs |-> << "SIGSTOP", "WAITPID" >>,
                      pre |-> inf, prestate |-> state]
            /\ UNCHANGED << ctlVars, ret, prog, closedSeen >>
       ELSE FinishDrop(K, <<>>, state)
    /\ UNCHANGED << elfVars, cmdVars >>

\* the blocking waitpid(pid, None) of teardown returns: with a status, or
\* with an error when there is nothing to wait for
drop_reaped ==
    /\ ret = NoRet
    /\ op.name = "drop"
    /\ ~Waitable(K, pid) \/ wstatus # NoStatus
    /\ FinishDrop(KWaitPid(K, pid).k, op.reqs, op.prestate)
    /\ UNCHANGED << elfVars, cmdVars >>

\* the caller takes the result of the call that returned
Ack ==
    /\ ret # NoRet
    /\ ret' = NoRet
    /\ closedSeen' = (closedSeen \/ (ret.op \in {"wait", "wait_until"} /\ ret.sr.reason \in Closed))
    /\ UNCHANGED << ctlVars, kernVars, op, prog >>
    /\ UNCHANGED << elfVars, cmdVars >>

----------------------------------------------------------------------------
(* The inferior and the world around it *)

EnvCan == ret = NoRet

\* the forked child reaches execve: the kernel stops it with SIGTRAP
ChildExec ==
    /\ EnvCan
    /\ inf = "forked"
    /\ inf' = "tstop"
    /\ traced' = TRUE
    /\ wstatus' = Stopped("SIGTRAP", "SI_USER")
    /\ pc' = 0
    /\ UNCHANGED << ctlVars, op, ret, child, pendStop, mem, traceopts, prog, closedSeen >>
    /\ UNCHANGED << elfVars, cmdVars >>

\* A step of execute fails in the forked child (disable_aslr, request_trace or
\* execve): the `?` returns the error out of launch_program, and the child
\* goes on as a copy of the debugger with Err(LaunchFailed) from Process::launch.
\* It is a tracee by then if request_trace was done (execve was what failed).
ChildExecFail ==
    /\ EnvCan
    /\ inf = "forked"
    /\ inf' = "returned"
    /\ traced' \in BOOLEAN
    /\ UNCHANGED << ctlVars, op, ret, wstatus, child, pendStop, mem, pc, traceopts, prog, closedSeen >>
    /\ UNCHANGED << elfVars, cmdVars >>

\* the child's copy of the debugger ends with the error it was given
ChildCopyExit ==
    /\ EnvCan
    /\ inf = "returned"
    /\ inf' = "zombie"
    /\ wstatus' = Exited(1)
    /\ UNCHANGED << ctlVars, op, ret, traced, child, pendStop, mem, pc, traceopts, prog, closedSeen >>
    /\ UNCHANGED << elfVars, cmdVars >>

\* the inferior runs one instruction
InfStep ==
    /\ EnvCan
    /\ inf \in {"running", "stepping"}
    /\ \E segv \in SegvCodes : SetK(RunOne(K, inf = "stepping", segv))
    /\ UNCHANGED << ctlVars, op, ret, prog, closedSeen >>
    /\ UNCHANGED << elfVars, cmdVars >>

\* a queued SIGSTOP stops the tracee
InfSigStop ==
    /\ EnvCan
    /\ traced /\ pendStop
    /\ inf \in {"running", "stepping"}
    /\ inf' = "tstop"
    /\ wstatus' = Stopped("SIGSTOP", "SI_USER")
    /\ pendStop' = FALSE
    /\ UNCHANGED << ctlVars, op, ret, traced, child, mem, pc, traceopts, prog, closedSeen >>
    /\ UNCHANGED << elfVars, cmdVars >>

\* somebody else kills the inferior
ExternalKill ==
    /\ EnvCan
    /\ Alive(K)
    /\ SetK(KKill(K, InfPid, "SIGKILL").k)
    /\ UNCHANGED << ctlVars, op, ret, prog, closedSeen >>
    /\ UNCHANGED << elfVars, cmdVars >>

----------------------------------------------------------------------------

Next ==
    \/ \E e \in BOOLEAN, f \in BOOLEAN, b \in 0 .. MaxBias : launch(e, f, b)
    \/ \E b \in 0 .. MaxBias : attach(b)
    \/ blocking_wait_on_signal
    \/ Poll
    \/ Timeout
    \/ wait
    \/ resume
    \/ step
    \/ stop
    \/ \E a \in Addr : set_breakpoint(a)
    \/ \E i \in 1 .. MaxBps : remove(i)
    \/ drop
    \/ drop_reaped
    \/ Ack
    \/ ChildExec
    \/ ChildExecFail
    \/ ChildCopyExit
    \/ InfStep
    \/ InfSigStop
    \/ ExternalKill

Spec == Init /\ [][Next]_vars

\* The calls the breakpoint invariants are stated over: set_breakpoint,
\* resume, step and wait, after a launch or an attach.
NextBp ==
    \/ \E e \in BOOLEAN, f \in BOOLEAN, b \in 0 .. MaxBias : launch(e, f, b)
    \/ \E b \in 0 .. MaxBias : attach(b)
    \/ Poll
    \/ Timeout
    \/ wait
    \/ resume
    \/ step
    \/ \E a \in Addr : set_breakpoint(a)
    \/ Ack
    \/ ChildExec
    \/ ChildExecFail
    \/ ChildCopyExit
    \/ InfStep
    \/ InfSigStop
    \/ ExternalKill

SpecBp == Init /\ [][NextBp]_vars

----------------------------------------------------------------------------
(* Scenarios: a caller that drives one launched program the way the         *)
(* debugger's state machine and the tests do.                               *)

\* DebuggerStateMachine::cont: resume, asked only of a Stopped controller
cont ==
    /\ state = "Stopped"
    /\ resume

\* nothing is on its way to the debugger: the child is past its exec, the
\* kernel holds no wait status and no queued SIGSTOP is about to stop it
Settled ==
    /\ inf \notin {"forked", "returned"}
    /\ wstatus = NoStatus
    /\ ~(pendStop /\ inf \in {"running", "stepping"})

\* the time of a blocking wait is up when it is given seconds: the exec of
\* the child and the delivery of a signal take far less
LongTimeout ==
    /\ Settled
    /\ Timeout

InitLoop == Init /\ inf = "none" /\ prog = "loop"

\* launch of a program that never exits; cont, stop and wait_until in any order
NextLoop ==
    \/ \E b \in 0 .. MaxBias : launch(TRUE, TRUE, b)
    \/ blocking_wait_on_signal
    \/ Poll
    \/ LongTimeout
    \/ cont
    \/ stop
    \/ Ack
    \/ ChildExec
    \/ InfStep
    \/ InfSigStop

\* The polling loop spins and the clock runs (WF Poll, LongTimeout), the
\* caller goes on after a return (WF Ack) and comes back to wait_until, the
\* kernel delivers a queued signal to a running tracee (SF InfSigStop: the
\* debugger's calls in between do not hold it up).
SpecLoop ==
    /\ InitLoop /\ [][NextLoop]_vars
    /\ WF_vars(Poll) /\ WF_vars(LongTimeout) /\ WF_vars(Ack)
    /\ SF_vars(blocking_wait_on_signal)
    /\ SF_vars(InfSigStop)

\* ExecutableFile::entry_address: the static entry address in the ELF header
entry_address == IF prog = "exit" THEN 1 ELSE 2

\* What /proc shows of an inferior loaded with bias b: AT_ENTRY in its
\* auxiliary vector, if that can be read, and the start of the first mapping
\* of its executable, if the map can be read and has one
Auxv(readable, b) == [ok |-> readable, entry |-> b + entry_address]
Maps(readable, b) == [ok |-> readable, start |-> b]

\* get_addr_offset: AT_ENTRY, else the start of the executable's first
\* mapping, else 0
get_addr_offset(auxv, maps) ==
    IF auxv.ok THEN auxv.entry
    ELSE IF maps.ok THEN maps.start
    ELSE 0

\* Process::launch as DebuggerStateMachine::start calls it
start_launch(auxvOk, mapsOk, b) ==
    launch(TRUE, TRUE, get_addr_offset(Auxv(auxvOk, b), Maps(mapsOk, b)))

\* DebuggerStateMachine::start after Process::launch has returned: the static
\* entry address (0 if the ELF file did not load) is subtracted from
\* addr_offset. The subtraction is on unsigned words: when the entry address
\* is the larger, a build with overflow checks panics, which drops the
\* Process, and a build without them wraps around.
start_done(hasElf, checked) ==
    /\ ctl = "live" /\ op = Idle
    /\ ret.op = "launch" /\ ret.ok
    /\ LET e == IF hasElf THEN entry_address ELSE 0 IN
       IF checked /\ addr_offset < e
       THEN LET t == teardown(K, pid, terminate_on_end, breakpoints) IN
            /\ SetK(t.k)
            /\ ctl' = "dropped"
            /\ breakpoints' = <<>>
            /\ ret' = Ret("start", FALSE, "Panic", NoSR, t.reqs, FALSE, inf, state)
            /\ UNCHANGED addr_offset
       ELSE /\ addr_offset' = (addr_offset - e) % Word
            /\ ret' = Ret("start", TRUE, "None", NoSR, <<>>, FALSE, inf, state)
            /\ UNCHANGED << ctl, breakpoints, kernVars >>
    /\ UNCHANGED << pid, state, terminate_on_end, nextId, op, prog, closedSeen >>
    /\ UNCHANGED << elfVars, cmdVars >>

\* start hands the Process on only after the subtraction
AckStart ==
    /\ ~(ret.op = "launch" /\ ret.ok)
    /\ Ack

\* start of the debugger on a program, then breakpoints, cont and wait
NextStart ==
    \/ \E a \in BOOLEAN, m \in BOOLEAN, b \in 0 .. MaxBias : start_launch(a, m, b)
    \/ Poll
    \/ \E h \in BOOLEAN, c \in BOOLEAN : start_done(h, c)
    \/ \E a \in Addr : set_breakpoint(a)
    \/ cont
    \/ wait
    \/ AckStart
    \/ ChildExec
    \/ InfStep

InitStart == Init /\ inf = "none"

SpecStart == InitStart /\ [][NextStart]_vars

\* proc.set_breakpoint(proc.pc()) on the freshly launched program
EntryBreak ==
    /\ state = "Stopped"
    /\ inf = "tstop"
    /\ breakpoints = <<>>
    /\ set_breakpoint(pc)

InitExit == Init /\ inf = "none" /\ prog = "exit"

\* launch of a program that exits with code 0; a breakpoint on its entry or
\* none; then cont and the two waits, again and again
NextExit ==
    \/ \E b \in 0 .. MaxBias : launch(TRUE, TRUE, b)
    \/ Poll
    \/ EntryBreak
    \/ cont
    \/ wait
    \/ blocking_wait_on_signal
    \/ LongTimeout
    \/ Ack
    \/ ChildExec
    \/ InfStep

\* The caller goes on after a return (WF Ack) and keeps calling wait and cont
\* (SF: each is possible again and again); the child reaches its exec, the
\* polling loop of a blocking wait spins and its clock runs (WF); a running
\* inferior gets the processor whatever the debugger does in between (SF
\* InfStep).
SpecExit ==
    /\ InitExit /\ [][NextExit]_vars
    /\ WF_vars(Ack) /\ WF_vars(ChildExec) /\ WF_vars(Poll) /\ WF_vars(LongTimeout)
    /\ SF_vars(wait) /\ SF_vars(cont)
    /\ SF_vars(InfStep)

\* DebuggerStateMachine::set_break(Location::Function): the breakpoint is
\* asked for at the function's static low_pc, f
FunctionBreak(f) ==
    /\ state = "Stopped"
    /\ inf = "tstop"
    /\ breakpoints = <<>>
    /\ set_breakpoint(f)

\* sm.cont() on the freshly started program, stopped at its first instruction
EntryCont ==
    /\ inf = "tstop"
    /\ pc = 0
    /\ cont

InitFn == Init /\ inf = "none"

\* start, a breakpoint on a function or none, one cont, blocking waits
NextFn ==
    \/ \E b \in 0 .. MaxBias : launch(TRUE, TRUE, b)
    \/ Poll
    \/ \E f \in Addr : FunctionBreak(f)
    \/ EntryCont
    \/ blocking_wait_on_signal
    \/ LongTimeout
    \/ Ack
    \/ ChildExec
    \/ InfStep

\* The caller goes on after a return and comes back to its blocking wait, the
\* polling loop spins and its clock runs, the running inferior gets the
\* processor.
SpecFn ==
    /\ InitFn /\ [][NextFn]_vars
    /\ WF_vars(Ack) /\ WF_vars(Poll) /\ WF_vars(LongTimeout)
    /\ SF_vars(blocking_wait_on_signal)
    /\ SF_vars(InfStep)

----------------------------------------------------------------------------
(* The file cache of elf.rs: LOADED_FILES, a map from path to the file's    *)
(* bytes behind one reader-writer lock, and the threads that call           *)
(* ExecutableFile::load. A thread takes one step at a time; the file        *)
(* system changes under them.                                               *)

procVars == << ctlVars, kernVars, op, ret, prog, closedSeen >>

\* a lock that lets every writer in
write_lock_ignored(w, r) == TRUE

\* RwLock::write gets the lock when nobody holds it
write_lock_free(w, r) == w = 0 /\ r = {}

\* RwLock::read gets the lock when no writer holds it
read_lock_free(w) == w = 0

At(t, where) == loader[t].pc = where

Goto(t, where) == loader' = [loader EXCEPT ![t].pc = where]

\* ExecutableFile::load(path) is called: it calls cache_file(path)
load(t, p) ==
    /\ At(t, "idle")
    /\ loader' = [loader EXCEPT ![t] = [pc |-> "cache_file", path |-> p, data |-> 0]]
    /\ UNCHANGED << LOADED_FILES, disk, wlock, rlock, nread >>

\* cache_file: let mut cache = rw_lock.write().unwrap()
cache_file_lock(t) ==
    /\ At(t, "cache_file")
    /\ write_lock_free(wlock, rlock)
    /\ wlock' = t
    /\ Goto(t, "contains_key")
    /\ UNCHANGED << LOADED_FILES, disk, rlock, nread >>

\* a contains_key that finds every path
contains_key_any(cache, path) == TRUE

\* HashMap::contains_key: the path has an entry (0 stands for none)
contains_key(cache, path) == cache[path] # 0

\* cache_file: if !cache.contains_key(path)
cache_file_contains_key(t) ==
    /\ At(t, "contains_key")
    /\ Goto(t, IF contains_key(LOADED_FILES, loader[t].path) THEN "cache_file_ok" ELSE "read")
    /\ UNCHANGED << LOADED_FILES, disk, wlock, rlock, nread >>

\* cache_file: let data = fs::read(path)?; an error returns, the guard is
\* dropped, and load returns CantOpenElf
cache_file_read(t) ==
    /\ At(t, "read")
    /\ IF disk[loader[t].path] = 0
       THEN /\ Goto(t, "CantOpenElf")
            /\ wlock' = IF wlock = t THEN 0 ELSE wlock
       ELSE /\ loader' = [loader EXCEPT ![t].pc = "insert", ![t].data = disk[loader[t].path]]
            /\ UNCHANGED wlock
    /\ UNCHANGED << LOADED_FILES, disk, rlock, nread >>

\* cache_file: cache.insert(path.to_path_buf(), Arc::new(data))
cache_file_insert(t) ==
    /\ At(t, "insert")
    /\ LOADED_FILES' = [LOADED_FILES EXCEPT ![loader[t].path] = loader[t].data]
    /\ nread' = [nread EXCEPT ![loader[t].path] = @ + 1]
    /\ Goto(t, "cache_file_ok")
    /\ UNCHANGED << disk, wlock, rlock >>

\* cache_file: Ok(()), the guard is dropped; load goes on to get_bytes
cache_file_ok(t) ==
    /\ At(t, "cache_file_ok")
    /\ wlock' = IF wlock = t THEN 0 ELSE wlock
    /\ loader' = [loader EXCEPT ![t].pc = "get_bytes", ![t].data = 0]
    /\ UNCHANGED << LOADED_FILES, disk, rlock, nread >>

\* get_bytes: (&*LOADED_FILES).read().unwrap()
get_bytes_lock(t) ==
    /\ At(t, "get_bytes")
    /\ read_lock_free(wlock)
    /\ rlock' = rlock \cup {t}
    /\ Goto(t, "get")
    /\ UNCHANGED << LOADED_FILES, disk, wlock, nread >>

\* get_bytes: .get(path).map(Arc::clone), the guard is dropped; load
\* unwraps the Option
get_bytes(t) ==
    /\ At(t, "get")
    /\ rlock' = rlock \ {t}
    /\ IF LOADED_FILES[loader[t].path] = 0
       THEN Goto(t, "panicked")
       ELSE loader' = [loader EXCEPT ![t].pc = "loaded",
                                     ![t].data = LOADED_FILES[loader[t].path]]
    /\ UNCHANGED << LOADED_FILES, disk, wlock, nread >>

\* load has returned (the ExecutableFile or CantOpenElf); the thread may load again
load_return(t) ==
    /\ At(t, "loaded") \/ At(t, "CantOpenElf")
    /\ loader' = [loader EXCEPT ![t] = NotLoading]
    /\ UNCHANGED << LOADED_FILES, disk, wlock, rlock, nread >>

\* somebody rewrites, removes or creates the file at a path
FileChange(p, v) ==
    /\ disk[p] # v
    /\ disk' = [disk EXCEPT ![p] = v]
    /\ UNCHANGED << LOADED_FILES, loader, wlock, rlock, nread >>

InitCache == Init /\ inf = "none" /\ prog = "exit"

NextCache ==
    /\ UNCHANGED << procVars, cmdVars >>
    /\ \/ \E t \in Threads, p \in Paths : load(t, p)
       \/ \E t \in Threads : cache_file_lock(t)
       \/ \E t \in Threads : cache_file_contains_key(t)
       \/ \E t \in Threads : cache_file_read(t)
       \/ \E t \in Threads : cache_file_insert(t)
       \/ \E t \in Threads : cache_file_ok(t)
       \/ \E t \in Threads : get_bytes_lock(t)
       \/ \E t \in Threads : get_bytes(t)
       \/ \E t \in Threads : load_return(t)
       \/ \E p \in Paths, v \in 0 .. MaxVersion : FileChange(p, v)

SpecCache == InitCache /\ [][NextCache]_vars

----------------------------------------------------------------------------
(* The command parser of commands.rs. A string is the sequence of its       *)
(* characters; a result is a record with ok = TRUE and the Command, or      *)
(* ok = FALSE and the ParseError.                                           *)

\* the string literals of commands.rs
S ==
    [ q |-> << "q" >>,
      quit |-> << "q", "u", "i", "t" >>,
      logs |-> << "l", "o", "g", "s" >>,
      qmark |-> << "?" >>,
      help |-> << "h", "e", "l", "p" >>,
      continue |-> << "c", "o", "n", "t", "i", "n", "u", "e" >>,
      cont |-> << "c", "o", "n", "t" >>,
      c |-> << "c" >>,
      restart |-> << "r", "e", "s", "t", "a", "r", "t" >>,
      list |-> << "l", "i", "s", "t" >>,
      l |-> << "l" >>,
      print |-> << "p", "r", "i", "n", "t", " " >>,
      load |-> << "l", "o", "a", "d", " " >>,
      attach |-> << "a", "t", "t", "a", "c", "h", " " >>,
      break |-> << "b", "r", "e", "a", "k", " " >>,
      registers |-> << "r", "e", "g", "i", "s", "t", "e", "r", "s" >>,
      0x |-> << "0", "x" >> ]

\* str::starts_with
starts_with(s, pre) == Len(s) >= Len(pre) /\ SubSeq(s, 1, Len(pre)) = pre

\* str::strip_prefix, for a string that starts with the prefix
strip_prefix(s, pre) == SubSeq(s, Len(pre) + 1, Len(s))

\* a trim_start_matches that removes the prefix once
trim_start_matches_once(s, pre) ==
    IF starts_with(s, pre) THEN strip_prefix(s, pre) ELSE s

\* str::trim_start_matches: the prefix is removed as often as it is there
RECURSIVE trim_start_matches(_, _)
trim_start_matches(s, pre) ==
    IF starts_with(s, pre) THEN trim_start_matches(strip_prefix(s, pre), pre) ELSE s

\* char::is_whitespace, for the characters the lines here are made of
is_whitespace(c) == c \in {" ", "\t"}

RECURSIVE trim_start(_)
trim_start(s) ==
    IF s # << >> /\ is_whitespace(Head(s)) THEN trim_start(Tail(s)) ELSE s

RECURSIVE trim_end(_)
trim_end(s) ==
    IF s # << >> /\ is_whitespace(s[Len(s)]) THEN trim_end(SubSeq(s, 1, Len(s) - 1)) ELSE s

\* str::trim
trim(s) == trim_end(trim_start(s))

\* the length of the token a string without leading whitespace starts with
token_len(s) ==
    IF \E i \in 1 .. Len(s) : is_whitespace(s[i])
    THEN (CHOOSE i \in 1 .. Len(s) :
              is_whitespace(s[i]) /\ \A j \in 1 .. i - 1 : ~is_whitespace(s[j])) - 1
    ELSE Len(s)

\* str::split_whitespace().collect::<Vec<&str>>()
RECURSIVE split_whitespace(_)
split_whitespace(s) ==
    IF s = << >> THEN << >>
    ELSE IF is_whitespace(Head(s)) THEN split_whitespace(Tail(s))
    ELSE << SubSeq(s, 1, token_len(s)) >>
             \o split_whitespace(SubSeq(s, token_len(s) + 1, Len(s)))

Digits == << "0", "1", "2", "3", "4", "5", "6", "7", "8", "9",
             "a", "b", "c", "d", "e", "f" >>

UpperDigits == << "0", "1", "2", "3", "4", "5", "6", "7", "8", "9",
                  "A", "B", "C", "D", "E", "F" >>

\* char::to_digit(radix): the digit's value, or -1 for None
to_digit(c, radix) ==
    IF \E i \in 1 .. radix : Digits[i] = c \/ UpperDigits[i] = c
    THEN (CHOOSE i \in 1 .. radix : Digits[i] = c \/ UpperDigits[i] = c) - 1
    ELSE -1

\* the number a string of digits writes
RECURSIVE digits_value(_, _)
digits_value(d, radix) ==
    IF d = << >> THEN 0
    ELSE digits_value(SubSeq(d, 1, Len(d) - 1), radix) * radix + to_digit(d[Len(d)], radix)

\* a width check that lets every number through
fits_any(v, bits) == TRUE

\* the number fits an unsigned integer of that many bits
fits(v, bits) == v < 2 ^ bits

\* from_str_radix for an unsigned type: an optional "+", then at least one
\* digit and only digits, and the number must fit. Gives [ok, v].
from_str_radix(s, radix, bits) ==
    LET d == IF s # << >> /\ Head(s) = "+" THEN Tail(s) ELSE s
    IN  IF d = << >> \/ \E i \in 1 .. Len(d) : to_digit(d[i], radix) < 0
        THEN [ok |-> FALSE, v |-> 0]
        ELSE IF ~fits(digits_value(d, radix), bits)
        THEN [ok |-> FALSE, v |-> 0]
        ELSE [ok |-> TRUE, v |-> digits_value(d, radix)]

\* str::parse::<i32>(): an optional "+" or "-", then digits; i32 is the
\* signed type of half the address width. Gives [ok, v].
parse_i32(s) ==
    LET neg == s # << >> /\ Head(s) = "-"
        d == IF s # << >> /\ Head(s) \in {"+", "-"} THEN Tail(s) ELSE s
        lim == 2 ^ (WordBits - 1)
    IN  IF d = << >> \/ \E i \in 1 .. Len(d) : to_digit(d[i], 10) < 0
        THEN [ok |-> FALSE, v |-> 0]
        ELSE IF neg
        THEN IF digits_value(d, 10) > lim THEN [ok |-> FALSE, v |-> 0]
             ELSE [ok |-> TRUE, v |-> 0 - digits_value(d, 10)]
        ELSE IF digits_value(d, 10) >= lim THEN [ok |-> FALSE, v |-> 0]
             ELSE [ok |-> TRUE, v |-> digits_value(d, 10)]

LocationErr(e) == [ok |-> FALSE, err |-> e]

\* impl FromStr for Location. Gives [ok, loc] or [ok, err].
Location_from_str(location) ==
    LET args == split_whitespace(location)
    IN  IF Len(args) = 1
        THEN IF starts_with(args[1], S.0x)
             THEN LET r == from_str_radix(strip_prefix(args[1], S.0x), 16, WordBits)
                  IN  IF r.ok THEN [ok |-> TRUE, loc |-> [kind |-> "Address", addr |-> r.v]]
                      ELSE LocationErr([kind |-> "InvalidHexAddress"])
             ELSE LET r == from_str_radix(args[1], 10, WordBits)
                  IN  IF r.ok THEN [ok |-> TRUE, loc |-> [kind |-> "Address", addr |-> r.v]]
                      ELSE LocationErr([kind |-> "CouldntParseAddress"])
        ELSE IF Len(args) = 2
        THEN LET r == from_str_radix(args[2], 10, WordBits)
             IN  IF r.ok
                 THEN [ok |-> TRUE, loc |-> [kind |-> "Line", file |-> args[1], line |-> r.v]]
                 ELSE LocationErr([kind |-> "InvalidLineNumber"])
        ELSE IF Len(args) = 0
        THEN LocationErr([kind |-> "Empty"])
        ELSE LocationErr([kind |-> "TooManyArgs", n |-> Len(args)])

\* impl FromStr for Expression. Gives [ok, expr] or [ok, err].
Expression_from_str(value) ==
    IF value = S.registers
    THEN [ok |-> TRUE, expr |-> "Registers"]
    ELSE [ok |-> FALSE, err |-> "InvalidExpression"]

Cmd(kind) == [ok |-> TRUE, kind |-> kind]

\* the break arm: let location_str = x.trim_start_matches("break ")
location_str(x) == trim_start_matches(x, S.break)

\* impl FromStr for Command: the arms of the match in their order
Command_from_str(command) ==
    IF command \in {S.q, S.quit} THEN Cmd("Quit")
    ELSE IF command = S.logs THEN Cmd("ToggleLogs")
    ELSE IF command \in {S.qmark, S.help} THEN Cmd("Help")
    ELSE IF command \in {S.continue, S.cont, S.c} THEN Cmd("Continue")
    ELSE IF command = S.restart THEN Cmd("Restart")
    ELSE IF command \in {S.list, S.l} THEN Cmd("ListBreakpoints")
    ELSE IF starts_with(command, S.print)
    THEN LET e == Expression_from_str(trim_start_matches(command, S.print))
         IN  IF e.ok THEN [ok |-> TRUE, kind |-> "Print", expr |-> e.expr]
             ELSE [ok |-> FALSE, kind |-> "InvalidExpression", err |-> e.err]
    ELSE IF starts_with(command, S.load)
    THEN [ok |-> TRUE, kind |-> "Load", path |-> trim_start_matches(command, S.load)]
    ELSE IF starts_with(command, S.attach)
    THEN LET pid_str == trim_start_matches(command, S.attach)
         IN  IF parse_i32(pid_str).ok
             THEN [ok |-> TRUE, kind |-> "Attach", pid |-> parse_i32(pid_str).v]
             ELSE [ok |-> FALSE, kind |-> "InvalidArgument", index |-> 0, arg |-> pid_str]
    ELSE IF starts_with(command, S.break)
    THEN LET l == Location_from_str(location_str(command))
         IN  IF l.ok THEN [ok |-> TRUE, kind |-> "Break", loc |-> l.loc]
             ELSE [ok |-> FALSE, kind |-> "InvalidLocation", err |-> l.err]
    ELSE IF trim(command) # << >>
    THEN [ok |-> FALSE, kind |-> "InvalidCommand", text |-> command]
    ELSE Cmd("Null")

\* the lines that are entered: the command words, alone, padded or
\* misspelt; the commands with an argument, followed by every short text
\* over a few characters; print followed by pieces of its own grammar
Pad == { << >>, << " " >> }

Words == { S.q, S.quit, S.logs, S.qmark, S.help, S.continue, S.cont, S.c,
           S.restart, S.list, S.l, << >>, << " " >>, << "x" >> }

WordLines == { a \o w \o b : a \in Pad, w \in Words, b \in Pad }

TailChars == { " ", "0", "1", "9", "x", "g", "+" }

Tails(n) == UNION { [1 .. k -> TailChars] : k \in 0 .. n }

BreakLines ==
    { a \o S.break \o t : a \in Pad, t \in Tails(MaxTail) }
        \cup { S.break \o S.break \o t : t \in Tails(MaxShortTail) }

ArgLines == { p \o t : p \in {S.load, S.attach}, t \in Tails(MaxShortTail) }

PrintPieces == { << >>, S.print, S.registers, << " " >>, << "x" >> }

PrintLines == { S.print \o a \o b \o c : a \in PrintPieces, b \in PrintPieces, c \in PrintPieces }

Lines == WordLines \cup BreakLines \cup ArgLines \cup PrintLines

\* Enter is pressed: the line goes to Command::from_str as it is
Parse ==
    /\ parsed = NoParse
    /\ parsed' = Command_from_str(line)
    /\ UNCHANGED << line, procVars, elfVars >>

InitCmd ==
    /\ ProcInit
    /\ inf = "none"
    /\ prog = "exit"
    /\ ElfInit
    /\ line \in Lines
    /\ parsed = NoParse

NextCmd == Parse

SpecCmd == InitCmd /\ [][NextCmd]_vars

----------------------------------------------------------------------------
(* Scenario: the test stop_on_events. A launched program that exits, event  *)
(* tracing switched on while it is stopped, then cont and the waits.        *)

EventsOn ==
    /\ state = "Stopped"
    /\ inf = "tstop"
    /\ traceopts = "off"
    /\ stop_on_events

InitEvents == Init /\ inf = "none" /\ prog = "exit"

NextEvents ==
    \/ \E b \in 0 .. MaxBias : launch(TRUE, TRUE, b)
    \/ Poll
    \/ EventsOn
    \/ cont
    \/ wait
    \/ blocking_wait_on_signal
    \/ LongTimeout
    \/ Ack
    \/ ChildExec
    \/ InfStep

\* The fairness of SpecExit: the caller goes on after a return and keeps
\* calling wait and cont, the polling loop spins and its clock runs, the
\* child reaches its exec and a running inferior gets the processor.
SpecEvents ==
    /\ InitEvents /\ [][NextEvents]_vars
    /\ WF_vars(Ack) /\ WF_vars(ChildExec) /\ WF_vars(Poll) /\ WF_vars(LongTimeout)
    /\ SF_vars(wait) /\ SF_vars(cont)
    /\ SF_vars(InfStep)

----------------------------------------------------------------------------
(* Properties *)

InfHasMemory == inf \in {"running", "stepping", "tstop"}

Gone(bp, bps) == \A j \in 1 .. Len(bps) : bps[j].id # bp.id

\* C1: breakpoint round-trip. Whenever a breakpoint leaves the collection (it
\* is removed, or dropped with its controller) and the inferior lives on, the
\* byte at its address is the byte that was there just before it was added
\* (the byte the breakpoint saved).
C1_RoundTrip ==
    [][\A i \in 1 .. Len(breakpoints) :
         (Gone(breakpoints[i], breakpoints') /\ InfHasMemory')
            => mem'[breakpoints[i].addr] = breakpoints[i].saved]_vars

\* C2: with no call in progress, every breakpoint of a live inferior has:
\* armed => enabled, armed => the byte at its address is INT3, disarmed =>
\* the byte at its address is its saved byte.
C2_BreakpointInvariants ==
    (ctl = "live" /\ op = Idle /\ InfHasMemory)
        => \A i \in 1 .. Len(breakpoints) :
             LET bp == breakpoints[i] IN
             /\ bp.armed => bp.enabled
             /\ bp.armed => mem[bp.addr] = INT3
             /\ ~bp.armed => mem[bp.addr] = bp.saved

InSeq(x, s) == \E i \in 1 .. Len(s) : s[i] = x
Count(x, s) == Cardinality({ i \in 1 .. Len(s) : s[i] = x })

\* C3: teardown safety. A drop with a nonzero pid: of a launched controller,
\* sends SIGKILL and leaves the inferior reaped; of an attached controller,
\* sends no SIGKILL, and an inferior that was alive is left alive and detached.
C3_TeardownSafety ==
    (ret.op = "drop" /\ pid # 0)
        => IF terminate_on_end
           THEN InSeq("SIGKILL", ret.reqs) /\ inf = "reaped"
           ELSE /\ ~InSeq("SIGKILL", ret.reqs)
                /\ ret.pre \in {"running", "stepping", "tstop"}
                      => (inf \in {"running", "stepping", "tstop"} /\ ~traced)

IsWait(o) == o \in {"wait", "wait_until"}

\* C4: state monotonicity. Once a wait has reported Exited or Terminated to
\* the caller, every later wait (non-blocking or blocking) returns an error.
C4_WaitErrorsAfterClosed ==
    (closedSeen /\ IsWait(ret.op)) => ~ret.ok

C4_Witness == closedSeen /\ ret.op = "wait" /\ ~ret.ok /\ state = "Terminated"

\* C5: the stored pid is zero if and only if the controller has reaped the inferior.
C5_PidZeroIffReaped ==
    ctl = "live" => (pid = 0 <=> inf = "reaped")

\* C6: Exited and Terminated are terminal: no step changes the state of a
\* controller whose state is Exited or Terminated.
C6_ClosedIsTerminal ==
    [][(ctl = "live" /\ state \in Closed) => state' = state]_vars

C6_Witness ==
    /\ state \in Closed
    /\ ret.op \in {"resume", "step", "stop", "wait"}
    /\ ret.prestate \in Closed

\* C7: when launch or attach returns successfully the state is Stopped and
\* the initial stop is consumed: the inferior is in tracing-stop with no
\* status left to wait for.
C7_StartsStopped ==
    (ret.op \in {"launch", "attach"} /\ ret.ok)
        => (state = "Stopped" /\ inf = "tstop" /\ wstatus = NoStatus)

\* C8: a successful resume from Stopped leaves the state Running and issues
\* exactly one continue, as its last request; with no breakpoint at the pc
\* the continue is its only request, with one the step over comes before it.
C8_ResumeContinues ==
    (ret.op = "resume" /\ ret.ok /\ ret.prestate = "Stopped")
        => /\ state = "Running"
           /\ Count("CONT", ret.reqs) = 1
           /\ ret.reqs[Len(ret.reqs)] = "CONT"
           /\ ~ret.hit => ret.reqs = << "CONT" >>
           /\ ret.hit => InSeq("SINGLESTEP", ret.reqs)

C8_Witness ==
    ret.op = "resume" /\ ret.ok /\ ret.prestate = "Stopped" /\ ret.hit

\* C9 as claimed: when step returns successfully the state is Stopped, the
\* inferior is in tracing-stop and the step's stop is not left pending.
C9_StepAwaitsStop ==
    (ret.op = "step" /\ ret.ok)
        => (state = "Stopped" /\ inf = "tstop" /\ wstatus = NoStatus)

\* C9 amended: step issues the single-step and returns without waiting. When
\* it returns successfully the state is Stopped, the single-step is its last
\* request, the inferior is still running that step, and the stop it will
\* produce is left for a later wait.
C9_StepReturnsBeforeStop ==
    (ret.op = "step" /\ ret.ok)
        => /\ state = "Stopped"
           /\ ret.reqs[Len(ret.reqs)] = "SINGLESTEP"
           /\ inf = "stepping"
           /\ wstatus = NoStatus

C9_Witness == ret.op = "step" /\ ret.ok /\ ret.hit /\ ret.prestate = "Stopped"

\* C10: re-arming is deferred from step to resume. After a step with a
\* breakpoint at the pc that breakpoint is disarmed; after the next successful
\* resume every breakpoint is armed again, so that whenever the state is
\* Running (and the inferior lives) every enabled breakpoint is armed.
C10_RearmOnResume ==
    /\ (ret.op = "step" /\ ret.ok /\ ret.hit)
          => \E i \in 1 .. Len(breakpoints) : ~breakpoints[i].armed /\ breakpoints[i].addr = pc
    /\ (ctl = "live" /\ state = "Running" /\ InfHasMemory)
          => \A i \in 1 .. Len(breakpoints) : breakpoints[i].enabled => breakpoints[i].armed

\* C11 as claimed: blocking_wait_on_signal has two outcomes only, one
\* StopReason or the Timeout error.
C11_TwoOutcomes ==
    ret.op = "wait_until"
        => \/ ret.ok /\ ret.sr # NoSR
           \/ ~ret.ok /\ ret.err = "Timeout"

\* C11 amended: blocking_wait_on_signal has three outcomes. It returns one
\* StopReason, made by the poll that consumed the one wait status the kernel
\* held; or the Timeout error; or the WaitFailed error of a failed waitpid. The
\* two errors leave the inferior untouched, and a poll that does not return
\* consumes no wait status.
C11_WaitUntilOutcomes ==
    [][op.name = "wait_until" =>
         /\ op' = Idle =>
              \/ /\ ret'.ok /\ ret'.sr # NoSR
                 /\ wstatus # NoStatus /\ wstatus' = NoStatus
              \/ ~ret'.ok /\ ret'.err = "Timeout" /\ UNCHANGED kernVars
              \/ ~ret'.ok /\ ret'.err = "WaitFailed" /\ UNCHANGED kernVars
         /\ (op' = op /\ wstatus # NoStatus) => wstatus' # NoStatus]_vars

C11_Witness == ret.op = "wait_until" /\ ~ret.ok /\ ret.err = "WaitFailed"

C17_OnlyWhenStopped ==
    (ret.op = "set_breakpoint" /\ ret.prestate # "Stopped")
        => (~ret.ok /\ ret.reqs = <<>>)

\* C18: the collection never holds two breakpoints with the same address, and
\* no breakpoint's saved byte is the INT3 another breakpoint wrote.
C18_NoDuplicateAddress ==
    /\ \A i, j \in 1 .. Len(breakpoints) :
         i # j => breakpoints[i].addr # breakpoints[j].addr
    /\ \A i \in 1 .. Len(breakpoints) : breakpoints[i].saved # INT3

\* C19: a breakpoint asked for at address a is installed at a itself: a
\* successful set_breakpoint(a) appends a breakpoint whose address is a.
C19_AddressNotBiased ==
    [][\A a \in Addr :
         (set_breakpoint(a) /\ ret'.ok)
            => breakpoints'[Len(breakpoints')].addr = a]_vars

\* C13: for an inferior that never exits. A wait_until begun after resume,
\* with no stop sent, returns Timeout and the state stays Running. After a
\* successful stop of the Running controller, a wait_until eventually returns
\* a StopReason with reason Stopped and the state is Stopped.
C13_TimeoutThenStopped ==
    /\ (op.name = "wait_until" /\ state = "Running" /\ ~pendStop /\ wstatus = NoStatus)
          ~> (ret.op = "wait_until" /\ ~ret.ok /\ ret.err = "Timeout" /\ state = "Running")
    /\ (ret.op = "stop" /\ ret.ok /\ state = "Running")
          ~> (ret.op = "wait_until" /\ ret.ok /\ ret.sr.reason = "Stopped"
                /\ ret.sr.sig = "SIGSTOP" /\ state = "Stopped")

C13_Witness ==
    /\ ret.op = "wait_until" /\ ret.ok /\ ret.sr.reason = "Stopped"
    /\ ret.sr.sig = "SIGSTOP" /\ ret.prestate = "Running" /\ state = "Stopped"
    /\ prog = "loop" /\ terminate_on_end

ReportsExit0 ==
    /\ ret.ok /\ ret.sr.reason = "Exited" /\ ret.sr.info = "Return" /\ ret.sr.code = 0
    /\ ret.sr.event = "None"

C16_ExitReported ==
    (ret.op = "resume" /\ ret.ok /\ breakpoints = <<>>)
        ~> (IsWait(ret.op) /\ ReportsExit0 /\ state = "Exited" /\ pid = 0
              /\ breakpoints = <<>>)

C16_Witness ==
    /\ ret.op = "wait" /\ ReportsExit0 /\ state = "Exited" /\ pid = 0
    /\ breakpoints = <<>> /\ ret.prestate = "Running"

\* the address lies inside an instruction that starts before it
MidInstr(a) == \E b \in Addr : b < a /\ a < b + InstrLen(b)

\* one breakpoint is set, at the start of an instruction the inferior executes
BreakSet == Len(breakpoints) = 1 /\ ~MidInstr(breakpoints[1].addr)

BreakStop ==
    [reason |-> "Stopped", info |-> "Signalled", sig |-> "SIGTRAP", code |-> 0,
     event |-> "None", trap_reason |-> "SoftwareBreak"]

C20_BiasNoUnderflow ==
    [][/\ \A b \in 0 .. MaxBias :
            (start_launch(FALSE, FALSE, b) /\ ctl' = "live") => addr_offset' = 0
       /\ \A h \in BOOLEAN, c \in BOOLEAN :
            start_done(h, c) =>
               /\ ret'.ok
               /\ addr_offset' <= addr_offset
               /\ addr_offset = 0 => addr_offset' = 0]_vars

\* C21: launching a path that does not exist fails fast. The call returns an
\* error at once (it does not block), asks nothing of the kernel, forks no
\* child and creates no controller: nothing is left to tear down.
C21_LaunchMissingPathFailsFast ==
    [][\A f \in BOOLEAN, b \in 0 .. MaxBias :
         launch(FALSE, f, b) =>
            /\ ~ret'.ok /\ ret'.op = "launch" /\ ret'.err = "NoPid" /\ ret'.reqs = <<>>
            /\ op' = Idle
            /\ ctl' = "none" /\ inf' = "none" /\ ~child' /\ ~traced'
            /\ UNCHANGED << ctlVars, kernVars >>]_vars

C21_Witness ==
    /\ ret.op = "launch" /\ ~ret.ok /\ ret.err = "NoPid"
    /\ ctl = "none" /\ inf = "none" /\ op = Idle

\* the requests of a teardown with a nonzero pid, in order: for a Running
\* controller SIGSTOP and a reap first; detach; SIGCONT; for a launched
\* inferior SIGKILL and a reap last
TeardownOrder(prestate, toe) ==
    (IF prestate = "Running" THEN << "SIGSTOP", "WAITPID" >> ELSE <<>>)
       \o << "DETACH", "SIGCONT" >>
       \o (IF toe THEN << "SIGKILL", "WAITPID" >> ELSE <<>>)

\* C27: teardown ordering with a nonzero pid: SIGSTOP and a reap first if the
\* state is Running, then detach, then SIGCONT, then SIGKILL and a reap only
\* when terminate_on_end is set; and so the detach is only ever asked for
\* while the inferior is in tracing-stop.
C27_DetachInTracingStop ==
    (ret.op = "drop" /\ pid # 0)
        => /\ ret.reqs = TeardownOrder(ret.prestate, terminate_on_end)
           /\ ret.pre = "tstop"

\* C28: teardown swallows every error. A drop with a nonzero pid always
\* returns, and whichever of its requests fail it has made all of them: the
\* SIGSTOP and the reap of a Running controller, the detach, the SIGCONT, and
\* for a launched inferior the SIGKILL and the final reap.
C28_TeardownSwallowsErrors ==
    (ret.op = "drop" /\ pid # 0)
        => /\ ret.ok /\ ctl = "dropped" /\ op = Idle
           /\ ret.reqs = TeardownOrder(ret.prestate, terminate_on_end)

\* a drop whose detach failed (the inferior was gone, or not in tracing-stop)
C28_Witness ==
    /\ ret.op = "drop" /\ pid # 0 /\ ret.pre \in {"reaped", "stepping", "running"}
    /\ ret.reqs = TeardownOrder(ret.prestate, terminate_on_end)
    /\ terminate_on_end

\* C29: when the non-blocking waitpid reports StillAlive, wait returns None
\* and leaves the controller's state, pid and breakpoints unchanged (and the
\* inferior too).
C29_StillAliveNoChange ==
    [][(wait /\ Waitable(K, pid) /\ wstatus = NoStatus)
          => /\ ret'.ok /\ ret'.sr = NoSR
             /\ UNCHANGED << state, pid, breakpoints, ctl, addr_offset, terminate_on_end >>
             /\ UNCHANGED kernVars]_vars

C29_Witness ==
    /\ ret.op = "wait" /\ ret.ok /\ ret.sr = NoSR
    /\ state = "Running" /\ inf = "running" /\ Len(breakpoints) > 0

\* C30: when waitpid reports that the inferior exited with code c, the wait
\* sets the state to Exited and the stored pid to zero and returns the
\* StopReason {Exited, Return(c)}; and a drop of a controller whose pid is
\* zero asks nothing of the kernel.
C30_ExitedZeroesPid ==
    /\ [][((wait \/ Poll) /\ Waitable(K, pid) /\ wstatus.k = "Exited")
             => /\ state' = "Exited" /\ pid' = 0
                /\ ret'.ok /\ ret'.sr = StopReason_new("Exited", "Return", "None", wstatus.code)
                /\ inf' = "reaped"]_vars
    /\ []((ret.op = "drop" /\ state = "Exited") => (pid = 0 /\ ret.reqs = <<>>))

C30_Witness ==
    /\ ret.op = "drop" /\ state = "Exited" /\ pid = 0 /\ ret.reqs = <<>>
    /\ inf = "reaped" /\ closedSeen

\* C22: whatever the interleaving of concurrent ExecutableFile::load calls,
\* each path's file is read and inserted into LOADED_FILES at most once, an
\* inserted entry is never replaced, changed or removed, and a failed read
\* leaves the cache as it was (and load gives CantOpenElf).
C22_LoadedOnceNeverChanged ==
    /\ [](\A p \in Paths : nread[p] <= 1)
    /\ [][\A p \in Paths : LOADED_FILES[p] # 0 => LOADED_FILES'[p] = LOADED_FILES[p]]_vars
    /\ [][\A t \in Threads :
            (cache_file_read(t) /\ disk[loader[t].path] = 0)
                => /\ LOADED_FILES' = LOADED_FILES
                   /\ LOADED_FILES'[loader[t].path] = 0
                   /\ loader'[t].pc = "CantOpenElf"]_vars

\* every thread has loaded the same path and holds the bytes that were
\* inserted once, although the file has changed since
C22_Witness ==
    \E p \in Paths :
        /\ nread[p] = 1
        /\ disk[p] # LOADED_FILES[p]
        /\ \A t \in Threads :
               loader[t] = [pc |-> "loaded", path |-> p, data |-> LOADED_FILES[p]]

DecChars == { "0", "1", "2", "3", "4", "5", "6", "7", "8", "9" }

HexChars == DecChars \cup { "a", "b", "c", "d", "e", "f", "A", "B", "C", "D", "E", "F" }

\* s is written with these characters only, after a "+" if a sign is allowed
IsNumber(s, chars, sign) ==
    LET d == IF sign /\ s # << >> /\ Head(s) = "+" THEN Tail(s) ELSE s
    IN  d # << >> /\ \A i \in 1 .. Len(d) : d[i] \in chars

\* C23: parsing a line gives what parsing the line without its leading and
\* trailing whitespace gives, and an empty or all-whitespace line gives Null.
C23_ParsesTrimmedLine ==
    parsed # NoParse =>
        /\ parsed = Command_from_str(trim(line))
        /\ trim(line) = << >> => parsed = Cmd("Null")

\* C24: a break location of one token that has a non-digit and does not
\* start with 0x is the location Function(token).
C24_SingleWordIsFunction ==
    LET args == split_whitespace(strip_prefix(line, S.break))
    IN  ( /\ parsed # NoParse
          /\ starts_with(line, S.break)
          /\ Len(args) = 1
          /\ ~starts_with(args[1], S.0x)
          /\ \E i \in 1 .. Len(args[1]) : args[1][i] \notin DecChars )
            => parsed = [ok |-> TRUE, kind |-> "Break",
                         loc |-> [kind |-> "Function", name |-> args[1]]]

\* the error the location grammar names for a text, if it names one
LocationClass(location, sign) ==
    LET args == split_whitespace(location)
    IN  IF Len(args) = 0 THEN [kind |-> "Empty"]
        ELSE IF Len(args) > 2 THEN [kind |-> "TooManyArgs", n |-> Len(args)]
        ELSE IF Len(args) = 2
        THEN IF IsNumber(args[2], DecChars, sign) THEN [kind |-> "unnamed"]
             ELSE [kind |-> "InvalidLineNumber"]
        ELSE IF starts_with(args[1], S.0x)
        THEN IF IsNumber(strip_prefix(args[1], S.0x), HexChars, sign) THEN [kind |-> "unnamed"]
             ELSE [kind |-> "InvalidHexAddress"]
        ELSE IF IsNumber(args[1], DecChars, FALSE) /\ digits_value(args[1], 10) >= 2 ^ WordBits
        THEN [kind |-> "CouldntParseAddress"]
        ELSE [kind |-> "unnamed"]

\* the break command has given InvalidLocation of the error named for the
\* text it handed to Location::from_str, whenever one is named
BreakReports(sign) ==
    (parsed # NoParse /\ starts_with(line, S.break)) =>
        LET e == LocationClass(location_str(line), sign)
        IN  e.kind # "unnamed" =>
                /\ Location_from_str(location_str(line)) = [ok |-> FALSE, err |-> e]
                /\ parsed = [ok |-> FALSE, kind |-> "InvalidLocation", err |-> e]

\* C25 as stated: no token gives Empty, n > 2 tokens TooManyArgs(n), two
\* tokens with a second token that is not all digits InvalidLineNumber, one
\* token 0x.. whose rest is not all hexadecimal digits InvalidHexAddress, one
\* all-digit token that does not fit the address width CouldntParseAddress,
\* each reported by break as InvalidLocation of it.
C25_ErrorsByTokenCount == BreakReports(FALSE)

\* C25: the same, a number being an optional "+" and then digits.
C25_ErrorsByTokenCountSigned == BreakReports(TRUE)

\* break with three tokens has given InvalidLocation(TooManyArgs(3))
C25_Witness ==
    /\ ~parsed.ok
    /\ parsed.kind = "InvalidLocation"
    /\ parsed.err = [kind |-> "TooManyArgs", n |-> 3]

\* C26: a line "print " + text gives Print(Registers) when the text is
\* exactly "registers" and InvalidExpression for every other text.
C26_PrintOnlyRegisters ==
    (parsed # NoParse /\ starts_with(line, S.print)) =>
        IF strip_prefix(line, S.print) = S.registers
        THEN parsed = [ok |-> TRUE, kind |-> "Print", expr |-> "Registers"]
        ELSE parsed = [ok |-> FALSE, kind |-> "InvalidExpression", err |-> "InvalidExpression"]

\* C31: a wait's StopReason carries a trap_reason only when it is a Stopped
\* reason with signal SIGTRAP, and then the one its si_code names; a stop
\* with another signal, Exited and Terminated carry none.
C31_TrapReasonOnlyForSigtrap ==
    (ret.op \in {"wait", "wait_until"} /\ ret.ok /\ ret.sr.reason # "None") =>
        IF ret.sr.reason = "Stopped" /\ ret.sr.sig = "SIGTRAP"
        THEN ret.sr.trap_reason \in {"None", "SingleStep", "SoftwareBreak", "HardwareBreak"}
        ELSE ret.sr.trap_reason = "None"

\* C33: the load bias is read only once the inferior has stopped at its
\* first trap and that stop has been consumed: when launch or attach has
\* built the controller with its addr_offset, the inferior is in its stop
\* and no status is left to wait for; it is never between fork and execve.
C33_BiasReadAfterFirstStop ==
    [][\A b \in 0 .. MaxBias :
          /\ \A e, f \in BOOLEAN :
                (launch(e, f, b) /\ ctl' = "live")
                    => (inf' = "tstop" /\ wstatus' = NoStatus)
          /\ (attach(b) /\ ctl' = "live")
                    => (inf' = "tstop" /\ wstatus' = NoStatus)]_vars

IsWaitResult == ret.op \in {"wait", "wait_until", "launch"} /\ ret.ok /\ ret.sr.reason # "None"

\* C32: with event tracing on, a resumed inferior that exits is first
\* reported as a Stopped reason with event Exit, and after a further resume
\* as Exited with event None and its return code; an event stop always
\* leaves the state Stopped, and Exited is never reported while the exit
\* event is still to come.
C32_ExitEventThenExited ==
    /\ []((IsWaitResult /\ ret.sr.event # "None")
            => (ret.sr.reason = "Stopped" /\ state = "Stopped"))
    /\ []((IsWaitResult /\ ret.sr.reason = "Exited")
            => (ret.sr.event = "None" /\ ret.sr.info = "Return" /\ traceopts # "on"))
    /\ (traceopts = "on" /\ state = "Running")
          ~> (IsWaitResult /\ ret.sr.event = "Exit" /\ ret.sr.reason = "Stopped"
              /\ state = "Stopped" /\ traceopts = "exiting")
    /\ (IsWaitResult /\ ret.sr.event = "Exit")
          ~> (IsWaitResult /\ ret.sr.reason = "Exited" /\ ret.sr.event = "None"
              /\ ret.sr.info = "Return" /\ ret.sr.code = 0 /\ state = "Exited")

\* the exit has been reported as an event, the inferior resumed once more,
\* and now Exited with Return(0) is reported
C32_Witness ==
    /\ IsWaitResult
    /\ ret.sr.reason = "Exited"
    /\ ret.sr.code = 0
    /\ traceopts = "exiting"

\* C34: stepping over a breakpoint is atomic for the caller: when resume or
\* step has found a breakpoint at the pc and fails, the breakpoints (their
\* armed flags), the inferior's memory, its pc and the controller's state
\* are what they were before the call.
C34_StepOverAtomic ==
    [][((resume \/ step) /\ ret'.hit /\ ~ret'.ok)
          => /\ breakpoints' = breakpoints
             /\ mem' = mem
             /\ pc' = pc
             /\ state' = state]_vars

\* C35: dropping a controller whose wait has reported Terminated makes no
\* detach, SIGCONT or SIGKILL on the stored pid, exactly as after Exited:
\* teardown makes no request on a process the controller has reaped.
C35_NoTeardownAfterReap ==
    (ret.op = "drop" /\ state \in Closed) => ret.reqs = <<>>

\* C36: whenever wait or the blocking wait returns a StopReason, the state
\* field after the call equals the reason of that StopReason; a reason
\* Exited is never returned with the state left Running.
C36_StateEqualsReason ==
    (ret.op \in {"wait", "wait_until"} /\ ret.ok /\ ret.sr # NoSR)
        => /\ state = ret.sr.reason
           /\ ~(ret.sr.reason = "Exited" /\ state = "Running")

C36_Witness ==
    /\ ret.op = "wait" /\ ret.ok /\ ret.sr.reason = "Exited" /\ ret.sr.info = "Return"
    /\ state = "Exited" /\ ret.prestate = "Running"

\* C37: a launch that fails after the fork leaves the child killed and
\* reaped, and an attach that fails after the ptrace attach leaves the
\* process detached: the controller being built is torn down and no process
\* stays traced.
C37_NoTracedProcessLeaked ==
    /\ (ret.op = "launch" /\ ~ret.ok /\ ctl = "dropped") => (inf = "reaped" /\ ~traced)
    /\ (ret.op = "attach" /\ ~ret.ok /\ ctl = "dropped") => ~traced

\* C38: after the fork of launch_program only the parent returns to the
\* caller: the forked child becomes the target through execve or ends, and
\* is never found running the debugger's code with a result of the launch,
\* whichever of its steps before or at execve fails.
C38_ChildNeverReturns ==
    [][inf = "forked" => inf' \in {"forked", "tstop", "zombie", "dead", "reaped"}]_vars

\* C39: a set_breakpoint whose corrected address addr + addr_offset leaves
\* the unsigned word range returns an error result: it does not panic, it
\* patches no byte of the inferior and it records no breakpoint.
C39_OverflowIsAnError ==
    [][\A a \in Addr :
          (set_breakpoint(a) /\ a + addr_offset >= Word)
             => /\ ~ret'.ok /\ ret'.err = "BreakpointSetFailed"
                /\ ctl' = "live"
                /\ mem' = mem
                /\ breakpoints' = breakpoints]_vars

\* C40: whatever the interleaving of the load calls, a thread whose
\* cache_file has returned Ok finds the entry of its path in LOADED_FILES:
\* the entry is there from the return of cache_file to the lookup of
\* get_bytes, the unwrap in load never panics, and the bytes load goes on
\* with are the entry's, the ones that were inserted for the path.
C40_GetBytesFindsEntry ==
    /\ [](\A t \in Threads :
            /\ ~At(t, "panicked")
            /\ (At(t, "get_bytes") \/ At(t, "get")) => LOADED_FILES[loader[t].path] # 0
            /\ At(t, "loaded") => /\ loader[t].data # 0
                                  /\ loader[t].data = LOADED_FILES[loader[t].path])
    /\ [][\A t \in Threads :
            get_bytes(t) => /\ loader'[t].pc = "loaded"
                            /\ loader'[t].data = LOADED_FILES[loader[t].path]]_vars

C40_Witness ==
    \E t, u \in Threads :
        /\ t # u
        /\ At(t, "loaded") /\ loader[t].data = LOADED_FILES[loader[t].path]
        /\ loader[t].data # 0
        /\ disk[loader[t].path] # loader[t].data
        /\ At(u, "get") /\ loader[u].path = loader[t].path

====
